---- MODULE Spec2Model ----
(***************************************************************************)
(* Control plane of the tally light firmware (src/main.cpp): the tally     *)
(* state, the liveness watchdog, the HTTP control API, the NVS-backed      *)
(* configuration and the OTA update sequence of loop().                    *)
(*                                                                         *)
(* Time is millis() in milliseconds.  The environment advances the clock   *)
(* in steps of Quantum ms up to MaxTime; a restart resets it.  The model   *)
(* stays far below the 2^32 ms wrap of millis().  NVS writes are assumed   *)
(* to succeed.  Every HTTP handler and every loop() iteration is one       *)
(* atomic step.                                                            *)
(***************************************************************************)
EXTENDS Integers, Sequences, FiniteSets, TLC

VARIABLES
    pc,             \* "boot": before setup() has run; "run": between loop()
                    \* iterations; "ota": loop() is inside httpUpdate.update(),
                    \* no callback has run yet; "otaWrite": after onStart;
                    \* "otaEnd": after onEnd
    now,            \* millis()
    tallyState,     \* enum TallyState, 0..4
    config,         \* config.brightness (RAM)
    nvs,            \* NVS namespace: [version |-> int, blob |-> byte sequence]
    lastPing,
    identifyStart,
    lastOtaTime,
    otaInProgress,
    hasTriedOta,
    leds,           \* colour last shown on the strip
    fastBrightness, \* FastLED.getBrightness()
    render,         \* which part of the firmware wrote the strip last
    request,        \* last HTTP request received
    response,       \* the response sent to it
    saved,          \* the last step ran saveConfig() ("Config saved" logged)
    contactAt,      \* history: time of the last authenticated set, identify or ping
    pingAt,         \* history: time of the last lastPing = millis()
    fires,          \* history: watchdog firings since the last lastPing = millis()
    ret,            \* HTTPUpdateResult ret of loop(), "none" until update() returns
    attempts,       \* history: calls of httpUpdate.update() since the last boot
    blobVersion     \* history: configVersion key in NVS when the blob was written

vars == << pc, now, tallyState, config, nvs, lastPing, identifyStart,
           lastOtaTime, otaInProgress, hasTriedOta, leds,
           fastBrightness, render, request, response, saved, contactAt,
           pingAt, fires, ret, attempts, blobVersion >>

(***************************************************************************)
(* Bounds of the model                                                     *)
(***************************************************************************)
Quantum == 5000          \* clock granularity of the environment, ms
MaxTime == 56000         \* SpecWatch: the clock is not advanced beyond this
OtaMaxTime == 11000      \* SpecOta: the clock is not advanced beyond this
MaxFires == 2            \* cap of the firing counter
MaxAttempts == 2         \* cap of the counter of update attempts
RaceMaxTime == 31000     \* SpecRace: the clock is not advanced beyond this
RenderMaxTime == 11000   \* SpecRender: the clock is not advanced beyond this

(***************************************************************************)
(* Program constants                                                       *)
(***************************************************************************)
TALLY_OFF == 0
TALLY_STANDBY == 1
TALLY_PROGRAM == 2
TALLY_PREVIEW == 3
TALLY_ERROR == 4
TallyStates == TALLY_OFF .. TALLY_ERROR

configVersion == 1
DefaultBrightness == 255 \div 2
ConfigSize == 1                 \* sizeof(Config)
API_KEY == "tallylight"
PingTimeout == 25000
IdentifyDuration == 5000
OtaProgressPeriod == 500
BootDelay == 1000               \* delay(1000) in setup() before server.begin()
LONG_MAX == 2147483647
LONG_MIN == -2147483647 - 1
NoTime == 0 - 1                    \* history variables: nothing recorded yet

(***************************************************************************)
(* toString / fromString                                                   *)
(***************************************************************************)
toString(state) ==
    CASE state = TALLY_OFF -> "OFF"
      [] state = TALLY_STANDBY -> "STANDBY"
      [] state = TALLY_PROGRAM -> "PROGRAM"
      [] state = TALLY_PREVIEW -> "PREVIEW"
      [] state = TALLY_ERROR -> "ERROR"
      [] OTHER -> "UNKNOWN"

NullOpt == [has |-> FALSE, value |-> 0]
Some(v) == [has |-> TRUE, value |-> v]

\* mutant: the PREVIEW branch returns the value of the branch above it
fromString_PreviewAsProgram(stateStr) ==
    IF stateStr = "OFF" THEN Some(TALLY_OFF)
    ELSE IF stateStr = "STANDBY" THEN Some(TALLY_STANDBY)
    ELSE IF stateStr = "PROGRAM" THEN Some(TALLY_PROGRAM)
    ELSE IF stateStr = "PREVIEW" THEN Some(TALLY_PROGRAM)
    ELSE IF stateStr = "ERROR" THEN Some(TALLY_ERROR)
    ELSE NullOpt

fromString(stateStr) ==
    IF stateStr = "OFF" THEN Some(TALLY_OFF)
    ELSE IF stateStr = "STANDBY" THEN Some(TALLY_STANDBY)
    ELSE IF stateStr = "PROGRAM" THEN Some(TALLY_PROGRAM)
    ELSE IF stateStr = "PREVIEW" THEN Some(TALLY_PREVIEW)
    ELSE IF stateStr = "ERROR" THEN Some(TALLY_ERROR)
    ELSE NullOpt

(***************************************************************************)
(* String::toInt(): atol() of the characters - optional sign, then the     *)
(* leading decimal digits, saturating at the range of long.                *)
(***************************************************************************)
Digits == << "0", "1", "2", "3", "4", "5", "6", "7", "8", "9" >>
IsDigit(c) == \E i \in 1..10 : Digits[i] = c
DigitVal(c) == (CHOOSE i \in 1..10 : Digits[i] = c) - 1

Overflow == 0 - 1                  \* the digits exceed LONG_MAX

RECURSIVE LeadingDigits(_, _, _)
LeadingDigits(s, i, acc) ==
    IF i > Len(s) \/ ~IsDigit(s[i]) THEN acc
    ELSE LET d == DigitVal(s[i])
         IN  IF acc = Overflow \/ acc > (LONG_MAX - d) \div 10
             THEN LeadingDigits(s, i + 1, Overflow)
             ELSE LeadingDigits(s, i + 1, acc * 10 + d)

toInt(s) ==
    IF s = << >> THEN 0
    ELSE IF s[1] = "-"
         THEN LET m == LeadingDigits(s, 2, 0) IN IF m = Overflow THEN LONG_MIN ELSE -m
         ELSE LET m == LeadingDigits(s, IF s[1] = "+" THEN 2 ELSE 1, 0)
              IN  IF m = Overflow THEN LONG_MAX ELSE m

ToUint8(n) == n % 256

(***************************************************************************)
(* ConfigStore                                                             *)
(***************************************************************************)
saveConfigNvs(cfg) == [version |-> configVersion, blob |-> << cfg >>]

\* NVS.getBlob("config", &config, sizeof(config))
getBlobOk(store) == Len(store.blob) = ConfigSize

\* mutant: the stored version is not compared with configVersion
loadConfig_NoVersionGuard(store, cfg) ==
    IF ~getBlobOk(store)
    THEN [config |-> DefaultBrightness,
          nvs |-> saveConfigNvs(DefaultBrightness), saved |-> TRUE]
    ELSE [config |-> store.blob[1], nvs |-> store, saved |-> FALSE]

\* loadConfig() at boot, with `cfg` the in-memory config before the call:
\* the resulting in-memory config and NVS contents.
loadConfig(store, cfg) ==
    IF store.version # configVersion
    THEN [config |-> cfg, nvs |-> saveConfigNvs(cfg), saved |-> TRUE]
    ELSE IF ~getBlobOk(store)
         THEN [config |-> DefaultBrightness,
               nvs |-> saveConfigNvs(DefaultBrightness), saved |-> TRUE]
         ELSE [config |-> store.blob[1], nvs |-> store, saved |-> FALSE]

(***************************************************************************)
(* Requests                                                                *)
(***************************************************************************)
\* request->hasParam(name) / request->getParam(name)->value()
Absent == [has |-> FALSE, value |-> ""]
AbsentChars == [has |-> FALSE, value |-> << >>]
Param(v) == [has |-> TRUE, value |-> v]

KeyParams == { Absent, Param("tallylight"), Param("wrong") }
StateParams == { Absent, Param("OFF"), Param("STANDBY"), Param("PROGRAM"),
                 Param("PREVIEW"), Param("ERROR"), Param("standby") }
BrightnessParams ==
    { AbsentChars, Param(<< "0" >>), Param(<< "2", "5", "5" >>),
      Param(<< "2", "5", "6" >>), Param(<< "-", "1" >>), Param(<< "a", "b" >>),
      Param(<< "9", "9", "9", "9", "9", "9", "9", "9", "9", "9", "9" >>) }

Req(ep, key, st, br) == [ep |-> ep, apiKey |-> key, state |-> st, brightness |-> br]
NoRequest == Req("none", Absent, Absent, AbsentChars)
NoResponse == [code |-> 0, tallyState |-> "", brightness |-> -1, error |-> ""]
Reply(code, err) == [code |-> code, tallyState |-> "", brightness |-> -1, error |-> err]
ReplyState(ts, br) == [code |-> 200, tallyState |-> toString(ts), brightness |-> br, error |-> ""]

\* mutant: the key is only checked for presence
Authenticated_AnyKey(req) == req.apiKey.has

Authenticated(req) == req.apiKey.has /\ req.apiKey.value = API_KEY

(***************************************************************************)
(* State of a freshly started process (globals before setup())             *)
(***************************************************************************)
StoredVersions == { 0, configVersion, configVersion + 1 }
StoredBlobs == { << >>, << 255 >>, << 7, 7 >> }

\* mutant: the watchdog starts disarmed (lastPing at the sentinel)
Globals_Disarmed(store) ==
    /\ pc = "boot"
    /\ now = 0
    /\ tallyState = TALLY_OFF
    /\ config = DefaultBrightness
    /\ nvs = store
    /\ lastPing = 0
    /\ identifyStart = 0
    /\ lastOtaTime = 0
    /\ otaInProgress = FALSE
    /\ hasTriedOta = FALSE
    /\ leds = "Black"
    /\ fastBrightness = 255
    /\ render = "none"
    /\ request = NoRequest
    /\ response = NoResponse
    /\ saved = FALSE
    /\ contactAt = NoTime
    /\ pingAt = NoTime
    /\ fires = 0
    /\ ret = "none"
    /\ attempts = 0
    /\ blobVersion = store.version

Globals(store) ==
    /\ pc = "boot"
    /\ now = 0
    /\ tallyState = TALLY_OFF
    /\ config = DefaultBrightness
    /\ nvs = store
    /\ lastPing = 1
    /\ identifyStart = 0
    /\ lastOtaTime = 0
    /\ otaInProgress = FALSE
    /\ hasTriedOta = FALSE
    /\ leds = "Black"
    /\ fastBrightness = 255
    /\ render = "none"
    /\ request = NoRequest
    /\ response = NoResponse
    /\ saved = FALSE
    /\ contactAt = NoTime
    /\ pingAt = NoTime
    /\ fires = 0
    /\ ret = "none"
    /\ attempts = 0
    /\ blobVersion = store.version

Init == \E v \in StoredVersions, b \in StoredBlobs :
            Globals([version |-> v, blob |-> b])

(***************************************************************************)
(* setup(): loadConfig(), LED self test, network, HTTP server              *)
(***************************************************************************)
Setup ==
    /\ pc = "boot"
    /\ \E r \in { loadConfig(nvs, config) } :
           /\ config' = r.config
           /\ nvs' = r.nvs
           /\ saved' = r.saved
           /\ fastBrightness' = r.config
           /\ blobVersion' = IF r.saved THEN configVersion ELSE blobVersion
    /\ tallyState' = TALLY_OFF
    /\ leds' = "Black"
    /\ render' = "setup"
    /\ now' = BootDelay
    /\ pc' = "run"
    /\ UNCHANGED << ret, attempts,
                    lastPing, identifyStart, lastOtaTime, otaInProgress,
                    hasTriedOta, request, response, contactAt, pingAt, fires >>

\* ESP.restart(): RAM is lost, NVS is kept, the program starts over.
Reboot ==
    /\ pc' = "boot"
    /\ now' = 0
    /\ tallyState' = TALLY_OFF
    /\ config' = DefaultBrightness
    /\ lastPing' = 1
    /\ identifyStart' = 0
    /\ lastOtaTime' = 0
    /\ otaInProgress' = FALSE
    /\ hasTriedOta' = FALSE
    /\ fastBrightness' = 255
    /\ saved' = FALSE
    /\ contactAt' = NoTime
    /\ pingAt' = NoTime
    /\ fires' = 0
    /\ ret' = "none"
    /\ attempts' = 0
    /\ UNCHANGED << nvs, blobVersion >>

\* server.begin() is the last call of setup(); the server then runs in its
\* own task, wherever loop() is
ServerUp == pc \in { "run", "ota", "otaWrite", "otaEnd", "wdTaken", "wdSentinel" }

(***************************************************************************)
(* GET / (status)                                                          *)
(***************************************************************************)
StatusHandler ==
    /\ ServerUp
    /\ request' = Req("/", Absent, Absent, AbsentChars)
    /\ response' = ReplyState(tallyState, config)
    /\ saved' = FALSE
    /\ UNCHANGED << ret, attempts, blobVersion,
                    pc, now, tallyState, config, nvs, lastPing, identifyStart,
                    lastOtaTime, otaInProgress, hasTriedOta, leds,
                    fastBrightness, render, contactAt, pingAt, fires >>

(***************************************************************************)
(* GET /set                                                                *)
(***************************************************************************)
\* mutant: the upper limit is off by one
BrightnessInRange_UpTo256(b) == b >= 0 /\ b <= 256

BrightnessInRange(b) == b >= 0 /\ b <= 255

\* The handler body after the API key check: the values of tallyState,
\* config and NVS it leaves behind, and the response it sends.
SetOutcome(req, ts, cfg, store) ==
    LET stateValue == fromString(req.state.value)
        ts1 == IF req.state.has /\ stateValue.has THEN stateValue.value ELSE ts
        brightness == toInt(req.brightness.value)
        newBrightness == ToUint8(brightness)
    IN  IF req.state.has /\ ~stateValue.has
        THEN [tallyState |-> ts, config |-> cfg, nvs |-> store, saved |-> FALSE,
              response |-> Reply(400, "Invalid state value")]
        ELSE IF req.brightness.has /\ ~BrightnessInRange(brightness)
        THEN [tallyState |-> ts1, config |-> cfg, nvs |-> store, saved |-> FALSE,
              response |-> Reply(400, "Invalid brightness value")]
        ELSE IF req.brightness.has /\ newBrightness # cfg
        THEN [tallyState |-> ts1, config |-> newBrightness,
              nvs |-> saveConfigNvs(newBrightness), saved |-> TRUE,
              response |-> ReplyState(ts1, newBrightness)]
        ELSE IF ~req.state.has /\ ~req.brightness.has
        THEN [tallyState |-> ts1, config |-> cfg, nvs |-> store, saved |-> FALSE,
              response |-> Reply(400, "No parameters given")]
        ELSE [tallyState |-> ts1, config |-> cfg, nvs |-> store, saved |-> FALSE,
              response |-> ReplyState(ts1, cfg)]

\* mutant: only an accepted set records the contact
SetHandler_ContactOnSuccess(req) ==
    /\ ServerUp
    /\ req.ep = "/set"
    /\ request' = req
    /\ IF ~Authenticated(req)
       THEN /\ response' = Reply(403, "Invalid API key")
            /\ saved' = FALSE
            /\ UNCHANGED << tallyState, config, nvs, lastPing, contactAt,
                            pingAt, fires, blobVersion >>
       ELSE \E r \in { SetOutcome(req, tallyState, config, nvs) } :
                /\ IF r.response.code = 200
                   THEN /\ lastPing' = now
                        /\ contactAt' = now
                        /\ pingAt' = now
                        /\ fires' = 0
                   ELSE UNCHANGED << lastPing, contactAt, pingAt, fires >>
                /\ tallyState' = r.tallyState
                /\ config' = r.config
                /\ nvs' = r.nvs
                /\ saved' = r.saved
                /\ response' = r.response
                /\ blobVersion' = IF r.saved THEN configVersion ELSE blobVersion
    /\ UNCHANGED << pc, now, identifyStart, lastOtaTime, otaInProgress,
                    hasTriedOta, leds, fastBrightness, render, ret, attempts >>

SetHandler(req) ==
    /\ ServerUp
    /\ req.ep = "/set"
    /\ request' = req
    /\ IF ~Authenticated(req)
       THEN /\ response' = Reply(403, "Invalid API key")
            /\ saved' = FALSE
            /\ UNCHANGED << tallyState, config, nvs, lastPing, contactAt,
                            pingAt, fires, blobVersion >>
       ELSE \E r \in { SetOutcome(req, tallyState, config, nvs) } :
                /\ lastPing' = now
                /\ contactAt' = now
                /\ pingAt' = now
                /\ fires' = 0
                /\ tallyState' = r.tallyState
                /\ config' = r.config
                /\ nvs' = r.nvs
                /\ saved' = r.saved
                /\ response' = r.response
                /\ blobVersion' = IF r.saved THEN configVersion ELSE blobVersion
    /\ UNCHANGED << pc, now, identifyStart, lastOtaTime, otaInProgress,
                    hasTriedOta, leds, fastBrightness, render, ret, attempts >>

(***************************************************************************)
(* GET /ping                                                               *)
(***************************************************************************)
\* mutant: a ping also takes the device out of ERROR
PingHandler_ClearsError ==
    /\ ServerUp
    /\ request' = Req("/ping", Absent, Absent, AbsentChars)
    /\ response' = Reply(200, "")
    /\ lastPing' = now
    /\ contactAt' = now
    /\ pingAt' = now
    /\ fires' = 0
    /\ saved' = FALSE
    /\ tallyState' = IF tallyState = TALLY_ERROR THEN TALLY_OFF ELSE tallyState
    /\ UNCHANGED << ret, attempts, blobVersion,
                    pc, now, config, nvs, identifyStart,
                    lastOtaTime, otaInProgress, hasTriedOta, leds,
                    fastBrightness, render >>

PingHandler ==
    /\ ServerUp
    /\ request' = Req("/ping", Absent, Absent, AbsentChars)
    /\ response' = Reply(200, "")
    /\ lastPing' = now
    /\ contactAt' = now
    /\ pingAt' = now
    /\ fires' = 0
    /\ saved' = FALSE
    /\ UNCHANGED << ret, attempts, blobVersion,
                    pc, now, tallyState, config, nvs, identifyStart,
                    lastOtaTime, otaInProgress, hasTriedOta, leds,
                    fastBrightness, render >>

(***************************************************************************)
(* GET /identify                                                           *)
(***************************************************************************)
IdentifyHandler(req) ==
    /\ ServerUp
    /\ req.ep = "/identify"
    /\ request' = req
    /\ saved' = FALSE
    /\ IF ~Authenticated(req)
       THEN /\ response' = Reply(403, "Invalid API key")
            /\ UNCHANGED << identifyStart, contactAt >>
       ELSE /\ identifyStart' = now + IdentifyDuration
            /\ contactAt' = now
            /\ response' = Reply(200, "")
    /\ UNCHANGED << ret, attempts, blobVersion,
                    pc, now, tallyState, config, nvs, lastPing, lastOtaTime,
                    otaInProgress, hasTriedOta, leds,
                    fastBrightness, render, pingAt, fires >>

(***************************************************************************)
(* GET /restart                                                            *)
(***************************************************************************)
RestartHandler(req) ==
    /\ ServerUp
    /\ req.ep = "/restart"
    /\ request' = req
    /\ IF ~Authenticated(req)
       THEN /\ response' = Reply(403, "Invalid API key")
            /\ saved' = FALSE
            /\ UNCHANGED << pc, now, tallyState, config, nvs, lastPing,
                            identifyStart, lastOtaTime, otaInProgress,
                            hasTriedOta, leds, fastBrightness,
                            render, contactAt, pingAt, fires, ret, attempts,
                            blobVersion >>
       ELSE /\ response' = Reply(200, "Resetting...")
            /\ Reboot
            /\ UNCHANGED << leds, render >>

SetRequests ==
    { Req("/set", Param(API_KEY), s, b) : s \in StateParams, b \in BrightnessParams }
    \cup { Req("/set", k, s, b) : k \in { Absent, Param("wrong") },
                                  s \in { Absent, Param("PROGRAM"), Param("standby") },
                                  b \in { AbsentChars, Param(<< "0" >>),
                                          Param(<< "2", "5", "6" >>) } }
IdentifyRequests == { Req("/identify", k, Absent, AbsentChars) : k \in KeyParams }
RestartRequests == { Req("/restart", k, Absent, AbsentChars) : k \in KeyParams }

(***************************************************************************)
(* loop(): watchdog, identify window, rendering                            *)
(***************************************************************************)
\* mutant: the timeout is taken in the wrong unit
WatchdogExpired_WrongUnit(lp, t, ts) ==
    lp # 0 /\ t - lp > PingTimeout * 1000 /\ ts # TALLY_ERROR

\* mutant: neither the sentinel nor the current state is looked at
WatchdogExpired_NoSentinel(lp, t, ts) == t - lp > PingTimeout

WatchdogExpired(lp, t, ts) == lp # 0 /\ t - lp > PingTimeout /\ ts # TALLY_ERROR

\* mutant: the window ends one comparison early
IdentifyExpired_Inclusive(start, t) == start # 0 /\ t >= start

IdentifyExpired(start, t) == start # 0 /\ t > start

IdentifyColour(t) == IF t % 500 < 250 THEN "Blue" ELSE "Black"

\* the switch over tallyState; `epoch` is timeClient.getEpochTime()
TallyColour(ts, epoch) ==
    CASE ts = TALLY_OFF -> "Black"
      [] ts = TALLY_STANDBY -> "Green"
      [] ts = TALLY_PROGRAM -> "Red"
      [] ts = TALLY_PREVIEW -> "OrangeRed"
      [] ts = TALLY_ERROR -> IF epoch % 2 < 1 THEN "DarkViolet" ELSE "Black"
      [] OTHER -> "Black"

\* mutant: the tally rendering leaves the brightness of the strip alone
LoopBody_KeepsBrightness ==
    /\ IF WatchdogExpired(lastPing, now, tallyState)
       THEN /\ lastPing' = 0
            /\ tallyState' = TALLY_ERROR
            /\ fires' = IF fires < MaxFires THEN fires + 1 ELSE fires
       ELSE UNCHANGED << lastPing, tallyState, fires >>
    /\ identifyStart' = IF IdentifyExpired(identifyStart, now) THEN 0 ELSE identifyStart
    /\ IF identifyStart' # 0
       THEN /\ leds' = IdentifyColour(now)
            /\ fastBrightness' = 255
            /\ render' = "identify"
       ELSE /\ \E epoch \in { 0, 1 } : leds' = TallyColour(tallyState', epoch)
            /\ fastBrightness' = fastBrightness
            /\ render' = "tally"
    /\ saved' = FALSE
    /\ UNCHANGED << attempts, blobVersion,
                    now, config, nvs, lastOtaTime, otaInProgress,
                    request, response, contactAt, pingAt >>

\* loop() from wm.process() to its end
LoopBody ==
    /\ IF WatchdogExpired(lastPing, now, tallyState)
       THEN /\ lastPing' = 0
            /\ tallyState' = TALLY_ERROR
            /\ fires' = IF fires < MaxFires THEN fires + 1 ELSE fires
       ELSE UNCHANGED << lastPing, tallyState, fires >>
    /\ identifyStart' = IF IdentifyExpired(identifyStart, now) THEN 0 ELSE identifyStart
    /\ IF identifyStart' # 0
       THEN /\ leds' = IdentifyColour(now)
            /\ fastBrightness' = 255
            /\ render' = "identify"
       ELSE /\ \E epoch \in { 0, 1 } : leds' = TallyColour(tallyState', epoch)
            /\ fastBrightness' = config
            /\ render' = "tally"
    /\ saved' = FALSE
    /\ UNCHANGED << attempts, blobVersion,
                    now, config, nvs, lastOtaTime, otaInProgress,
                    request, response, contactAt, pingAt >>

\* an iteration of loop() that does not attempt an update
\* `wifiConnected` is WiFi.status() == WL_CONNECTED
Tick(wifiConnected) ==
    /\ pc = "run"
    /\ ~otaInProgress
    /\ ~(wifiConnected /\ ~hasTriedOta)
    /\ LoopBody
    /\ UNCHANGED << pc, hasTriedOta, ret >>

(***************************************************************************)
(* loop(): the update attempt.  httpUpdate.update() blocks loop(); the     *)
(* library runs the registered callbacks from inside the call.             *)
(***************************************************************************)
\* mutant: the attempt is made on every iteration with a connected network
OtaCheck_EveryTick(wifiConnected) ==
    /\ pc = "run"
    /\ ~otaInProgress
    /\ wifiConnected
    /\ hasTriedOta' = TRUE
    /\ attempts' = IF attempts < MaxAttempts THEN attempts + 1 ELSE attempts
    /\ pc' = "ota"
    /\ saved' = FALSE
    /\ UNCHANGED << ret, blobVersion,
                    now, tallyState, config, nvs, lastPing, identifyStart,
                    lastOtaTime, otaInProgress, leds,
                    fastBrightness, render, request, response, contactAt,
                    pingAt, fires >>

OtaCheck(wifiConnected) ==
    /\ pc = "run"
    /\ ~otaInProgress
    /\ wifiConnected /\ ~hasTriedOta
    /\ hasTriedOta' = TRUE
    /\ attempts' = IF attempts < MaxAttempts THEN attempts + 1 ELSE attempts
    /\ pc' = "ota"
    /\ saved' = FALSE
    /\ UNCHANGED << ret, blobVersion,
                    now, tallyState, config, nvs, lastPing, identifyStart,
                    lastOtaTime, otaInProgress, leds,
                    fastBrightness, render, request, response, contactAt,
                    pingAt, fires >>

\* The results with which update() comes back to loop().  HTTP_UPDATE_OK is
\* not among them: the library restarts the device after onEnd.
UpdateReturns == { "HTTP_UPDATE_NO_UPDATES", "HTTP_UPDATE_FAILED" }

\* update() returns `result` without having run the onError callback: the
\* server has no newer build, or the library gives up (at the check, or after
\* onStart while the image is written) and only records the error.  loop()
\* logs the result and goes on with the rest of its body, whatever
\* otaInProgress is by then.
OtaReturnWith(result) ==
    /\ pc \in IF result = "HTTP_UPDATE_FAILED" THEN { "ota", "otaWrite" }
                                               ELSE { "ota" }
    /\ pc' = "run"
    /\ ret' = result
    /\ LoopBody
    /\ UNCHANGED hasTriedOta

OtaReturn == \E result \in UpdateReturns : OtaReturnWith(result)

\* loop() entered while otaInProgress is set: it returns at once
LoopReturnsEarly ==
    /\ pc = "run"
    /\ otaInProgress
    /\ UNCHANGED vars

\* httpUpdate.onStart
OtaStart ==
    /\ pc = "ota"
    /\ pc' = "otaWrite"
    /\ otaInProgress' = TRUE
    /\ lastOtaTime' = now
    /\ leds' = "Rainbow"
    /\ render' = "otaStart"
    /\ saved' = FALSE
    /\ UNCHANGED << ret, attempts, blobVersion,
                    now, tallyState, config, nvs, lastPing, identifyStart,
                    hasTriedOta, fastBrightness, request, response,
                    contactAt, pingAt, fires >>

Percents == { 0, 50, 100 }

GradientColour(percent) ==
    CASE percent = 0 -> "Gradient0"
      [] percent = 50 -> "Gradient50"
      [] OTHER -> "Gradient100"

\* httpUpdate.onProgress
OtaProgress(percent) ==
    /\ pc = "otaWrite"
    /\ otaInProgress' = TRUE
    /\ IF now - lastOtaTime > OtaProgressPeriod
       THEN /\ lastOtaTime' = now
            /\ leds' = GradientColour(percent)
            /\ render' = "otaProgress"
       ELSE UNCHANGED << lastOtaTime, leds, render >>
    /\ saved' = FALSE
    /\ UNCHANGED << ret, attempts, blobVersion,
                    pc, now, tallyState, config, nvs, lastPing, identifyStart,
                    hasTriedOta, fastBrightness, request, response,
                    contactAt, pingAt, fires >>

\* httpUpdate.onEnd
OtaEnd ==
    /\ pc = "otaWrite"
    /\ pc' = "otaEnd"
    /\ otaInProgress' = FALSE
    /\ leds' = "Black"
    /\ render' = "otaEnd"
    /\ saved' = FALSE
    /\ UNCHANGED << ret, attempts, blobVersion,
                    now, tallyState, config, nvs, lastPing, identifyStart,
                    lastOtaTime, hasTriedOta, fastBrightness,
                    request, response, contactAt, pingAt, fires >>

\* the library restarts the device after a completed update
OtaReboot ==
    /\ pc = "otaEnd"
    /\ Reboot
    /\ UNCHANGED << leds, render, request, response >>

\* httpUpdate.onError: blink red, ESP.restart()
OtaError ==
    /\ pc \in { "ota", "otaWrite", "otaEnd" }
    /\ Reboot
    /\ leds' = "Black"
    /\ render' = "otaError"
    /\ UNCHANGED << request, response >>

(***************************************************************************)
(* Environment                                                             *)
(***************************************************************************)
Advance(limit) ==
    /\ pc # "boot"
    /\ now + Quantum <= limit
    /\ now' = now + Quantum
    /\ UNCHANGED << ret, attempts, blobVersion,
                    pc, tallyState, config, nvs, lastPing, identifyStart,
                    lastOtaTime, otaInProgress, hasTriedOta, leds,
                    fastBrightness, render, request, response, saved,
                    contactAt, pingAt, fires >>

\* the steps of loop() and of the update attempt
LoopStep ==
    \/ \E wifiConnected \in BOOLEAN : Tick(wifiConnected)
    \/ \E wifiConnected \in BOOLEAN : OtaCheck(wifiConnected)
    \/ OtaReturn
    \/ OtaStart
    \/ \E percent \in Percents : OtaProgress(percent)
    \/ OtaEnd
    \/ OtaReboot
    \/ OtaError
    \/ LoopReturnsEarly

(***************************************************************************)
(* Spec: the control API with every sampled request, over a short time.    *)
(***************************************************************************)
Next ==
    \/ Setup
    \/ StatusHandler
    \/ \E req \in SetRequests : SetHandler(req)
    \/ PingHandler
    \/ \E req \in IdentifyRequests : IdentifyHandler(req)
    \/ \E req \in RestartRequests : RestartHandler(req)
    \/ \E wifiConnected \in BOOLEAN : Tick(wifiConnected)

Spec == Init /\ [][Next]_vars

(***************************************************************************)
(* SpecWatch: the watchdog and the identify window over a long time, with  *)
(* a few requests; an update attempt finds no update or fails at the check.*)
(***************************************************************************)
WatchSetRequests ==
    { Req("/set", Param(API_KEY), Param("STANDBY"), AbsentChars),
      Req("/set", Param(API_KEY), Absent, Param(<< "0" >>)),
      Req("/set", Param(API_KEY), Param("standby"), AbsentChars),
      Req("/set", Param(API_KEY), Absent, AbsentChars),
      Req("/set", Param(API_KEY), Absent, Param(<< "2", "5", "6" >>)) }
WatchIdentifyRequests == { Req("/identify", Param(API_KEY), Absent, AbsentChars) }
WatchRestartRequests == { Req("/restart", Param(API_KEY), Absent, AbsentChars) }

InitWatch == Globals(saveConfigNvs(DefaultBrightness))

NextWatch ==
    \/ Setup
    \/ StatusHandler
    \/ \E req \in WatchSetRequests : SetHandler(req)
    \/ PingHandler
    \/ \E req \in WatchIdentifyRequests : IdentifyHandler(req)
    \/ \E req \in WatchRestartRequests : RestartHandler(req)
    \/ \E wifiConnected \in BOOLEAN : Tick(wifiConnected)
    \/ \E wifiConnected \in BOOLEAN : OtaCheck(wifiConnected)
    \/ OtaReturn
    \/ OtaError
    \/ Advance(MaxTime)

SpecWatch == InitWatch /\ [][NextWatch]_vars

(***************************************************************************)
(* SpecRace: the /set handler and the watchdog of loop() as the separate   *)
(* reads and writes they are.  The handlers run in the task of the         *)
(* AsyncWebServer, loop() in the Arduino loop task; nothing orders the     *)
(* accesses of the two to lastPing and tallyState.                         *)
(*   pc = "wdTaken":    loop() found the condition of line 490 true        *)
(*   pc = "wdSentinel": loop() has written lastPing = 0 (line 492)         *)
(*   response = Pending: the /set handler has written lastPing (line 295)  *)
(*                       and has not looked at its parameters yet          *)
(***************************************************************************)
Pending == Reply(0, "pending")
HandlerRunning == response = Pending

\* /set up to lastPing = millis()
SetContact(req) ==
    /\ ServerUp
    /\ ~HandlerRunning
    /\ req.ep = "/set"
    /\ request' = req
    /\ IF ~Authenticated(req)
       THEN /\ response' = Reply(403, "Invalid API key")
            /\ UNCHANGED << lastPing, contactAt, pingAt, fires >>
       ELSE /\ response' = Pending
            /\ lastPing' = now
            /\ contactAt' = now
            /\ pingAt' = now
            /\ fires' = 0
    /\ saved' = FALSE
    /\ UNCHANGED << pc, now, tallyState, config, nvs, identifyStart, lastOtaTime,
                    otaInProgress, hasTriedOta, leds, fastBrightness, render,
                    ret, attempts, blobVersion >>

\* /set from the state parameter to the response
SetApply ==
    /\ HandlerRunning
    /\ request.ep = "/set"
    /\ \E r \in { SetOutcome(request, tallyState, config, nvs) } :
           /\ tallyState' = r.tallyState
           /\ config' = r.config
           /\ nvs' = r.nvs
           /\ saved' = r.saved
           /\ response' = r.response
           /\ blobVersion' = IF r.saved THEN configVersion ELSE blobVersion
    /\ UNCHANGED << pc, now, lastPing, identifyStart, lastOtaTime, otaInProgress,
                    hasTriedOta, leds, fastBrightness, render, request,
                    contactAt, pingAt, fires, ret, attempts >>

\* loop(): the condition of the watchdog is true
WatchdogCheck ==
    /\ pc = "run"
    /\ ~otaInProgress
    /\ WatchdogExpired(lastPing, now, tallyState)
    /\ pc' = "wdTaken"
    /\ UNCHANGED << now, tallyState, config, nvs, lastPing, identifyStart,
                    lastOtaTime, otaInProgress, hasTriedOta, leds,
                    fastBrightness, render, request, response, saved,
                    contactAt, pingAt, fires, ret, attempts, blobVersion >>

\* loop(): lastPing = 0
WatchdogDisarm ==
    /\ pc = "wdTaken"
    /\ pc' = "wdSentinel"
    /\ lastPing' = 0
    /\ UNCHANGED << now, tallyState, config, nvs, identifyStart,
                    lastOtaTime, otaInProgress, hasTriedOta, leds,
                    fastBrightness, render, request, response, saved,
                    contactAt, pingAt, fires, ret, attempts, blobVersion >>

\* loop(): tallyState = TALLY_ERROR, and the rest of the iteration
WatchdogForce ==
    /\ pc = "wdSentinel"
    /\ pc' = "run"
    /\ tallyState' = TALLY_ERROR
    /\ fires' = IF fires < MaxFires THEN fires + 1 ELSE fires
    /\ identifyStart' = IF IdentifyExpired(identifyStart, now) THEN 0 ELSE identifyStart
    /\ IF identifyStart' # 0
       THEN /\ leds' = IdentifyColour(now)
            /\ fastBrightness' = 255
            /\ render' = "identify"
       ELSE /\ \E epoch \in { 0, 1 } : leds' = TallyColour(TALLY_ERROR, epoch)
            /\ fastBrightness' = config
            /\ render' = "tally"
    /\ UNCHANGED << now, config, nvs, lastPing, lastOtaTime, otaInProgress,
                    hasTriedOta, request, response, saved, contactAt, pingAt,
                    ret, attempts, blobVersion >>

\* time is advanced between the iterations of loop() and between requests
RaceAdvance ==
    /\ pc = "run"
    /\ ~HandlerRunning
    /\ Advance(RaceMaxTime)

RaceSetRequests ==
    { Req("/set", Param(API_KEY), Param("STANDBY"), AbsentChars),
      Req("/set", Param(API_KEY), Param("PROGRAM"), AbsentChars),
      Req("/set", Param("wrong"), Param("PROGRAM"), AbsentChars) }

NextRace ==
    \/ Setup
    \/ \E req \in RaceSetRequests : SetContact(req)
    \/ SetApply
    \/ ~HandlerRunning /\ PingHandler
    \/ \E wifiConnected \in { FALSE } : Tick(wifiConnected)
    \/ WatchdogCheck
    \/ WatchdogDisarm
    \/ WatchdogForce
    \/ RaceAdvance

SpecRace == InitWatch /\ [][NextRace]_vars

(***************************************************************************)
(* SpecPower: configurations saved and loaded, with the power failing      *)
(* inside saveConfig().  NVS.setInt() commits the version key before       *)
(* NVS.setBlob() is called, so the power can fail with none, one or both   *)
(* of the two keys written.                                                *)
(***************************************************************************)
\* NVS after saveConfig() of `cfg` was cut off with `written` keys written
saveConfigCut(store, cfg, written) ==
    IF written = 0 THEN store
    ELSE IF written = 1 THEN [version |-> configVersion, blob |-> store.blob]
    ELSE saveConfigNvs(cfg)

\* the device comes up again after the power failed: RAM as at any start
PowerCycled ==
    /\ pc' = "boot"
    /\ now' = 0
    /\ tallyState' = TALLY_OFF
    /\ config' = DefaultBrightness
    /\ lastPing' = 1
    /\ identifyStart' = 0
    /\ lastOtaTime' = 0
    /\ otaInProgress' = FALSE
    /\ hasTriedOta' = FALSE
    /\ leds' = "Black"
    /\ fastBrightness' = 255
    /\ render' = "none"
    /\ request' = NoRequest
    /\ response' = NoResponse
    /\ saved' = FALSE
    /\ contactAt' = NoTime
    /\ pingAt' = NoTime
    /\ fires' = 0
    /\ ret' = "none"
    /\ attempts' = 0

\* the power fails inside the saveConfig() that loadConfig() calls
PowerLossInSetup(written) ==
    /\ pc = "boot"
    /\ loadConfig(nvs, config).saved
    /\ nvs' = saveConfigCut(nvs, loadConfig(nvs, config).config, written)
    /\ blobVersion' = IF written = 2 THEN configVersion ELSE blobVersion
    /\ PowerCycled

\* the power fails inside the saveConfig() that the /set handler calls
PowerLossInSet(req, written) ==
    /\ ServerUp
    /\ req.ep = "/set"
    /\ Authenticated(req)
    /\ \E r \in { SetOutcome(req, tallyState, config, nvs) } :
           /\ r.saved
           /\ nvs' = saveConfigCut(nvs, r.config, written)
    /\ blobVersion' = IF written = 2 THEN configVersion ELSE blobVersion
    /\ PowerCycled

PowerSetRequests ==
    { Req("/set", Param(API_KEY), Absent, Param(<< "0" >>)),
      Req("/set", Param(API_KEY), Param("PROGRAM"), Param(<< "2", "5", "5" >>)),
      Req("/set", Param(API_KEY), Param("STANDBY"), AbsentChars) }

NextPower ==
    \/ Setup
    \/ StatusHandler
    \/ \E req \in PowerSetRequests : SetHandler(req)
    \/ \E req \in WatchRestartRequests : RestartHandler(req)
    \/ \E wifiConnected \in { FALSE } : Tick(wifiConnected)
    \/ \E written \in 0 .. 2 : PowerLossInSetup(written)
    \/ \E req \in PowerSetRequests, written \in 0 .. 2 : PowerLossInSet(req, written)

SpecPower == Init /\ [][NextPower]_vars

(***************************************************************************)
(* SpecRender: every tally state at two brightnesses, with the identify    *)
(* window opening and expiring.                                            *)
(***************************************************************************)
RenderSetRequests ==
    { Req("/set", Param(API_KEY), Param(n), b) :
          n \in { "OFF", "STANDBY", "PROGRAM", "PREVIEW", "ERROR" },
          b \in { AbsentChars, Param(<< "2", "0", "0" >>) } }

NextRender ==
    \/ Setup
    \/ \E req \in RenderSetRequests : SetHandler(req)
    \/ \E req \in WatchIdentifyRequests : IdentifyHandler(req)
    \/ \E wifiConnected \in { FALSE } : Tick(wifiConnected)
    \/ Advance(RenderMaxTime)

SpecRender == InitWatch /\ [][NextRender]_vars

(***************************************************************************)
(* SpecOta: the whole update sequence over a short time, with a few        *)
(* requests.                                                               *)
(***************************************************************************)
NextOta ==
    \/ Setup
    \/ StatusHandler
    \/ \E req \in WatchSetRequests : SetHandler(req)
    \/ PingHandler
    \/ \E req \in WatchIdentifyRequests : IdentifyHandler(req)
    \/ \E req \in WatchRestartRequests : RestartHandler(req)
    \/ LoopStep
    \/ Advance(OtaMaxTime)

SpecOta == InitWatch /\ [][NextOta]_vars

(***************************************************************************)
(* Vocabulary of the properties                                            *)
(***************************************************************************)
ValidKey(req) == req.apiKey = Param("tallylight")
ValidNames == { "OFF", "STANDBY", "PROGRAM", "PREVIEW", "ERROR" }
NamesValidState(req) == req.state.has /\ req.state.value \in ValidNames

\* the request parameters that spell an integer of 0..255, with the integer,
\* and those that spell an integer outside 0..255
InRangeBrightness == { << << "0" >>, 0 >>, << << "2", "5", "5" >>, 255 >> }
OutOfRangeBrightness ==
    { << "2", "5", "6" >>, << "-", "1" >>,
      << "9", "9", "9", "9", "9", "9", "9", "9", "9", "9", "9" >> }

\* a step in which loop() ran through its watchdog and rendering part
LoopRan == (\E wifiConnected \in BOOLEAN : Tick(wifiConnected)) \/ OtaReturn

\* In the properties below a handler step is recognised by the request it
\* leaves in `request`: Handler(request') holds of a step exactly when the
\* step is that handler run on that request.

\* a step that took the watchdog branch
WatchdogFired == lastPing # 0 /\ lastPing' = 0 /\ tallyState' = TALLY_ERROR

(***************************************************************************)
(* C1: an authenticated set with a valid state name and a brightness       *)
(* outside 0..255 is answered 400 and leaves tallyState, config.brightness *)
(* and the NVS contents as they were.                                      *)
(***************************************************************************)
MixedInvalid(req) ==
    /\ ValidKey(req)
    /\ NamesValidState(req)
    /\ req.brightness.has /\ req.brightness.value \in OutOfRangeBrightness

C1_NoPartialApplication ==
    [][LET req == request' IN
          (MixedInvalid(req) /\ SetHandler(req)) =>
              /\ response'.code = 400
              /\ tallyState' = tallyState
              /\ config' = config
              /\ nvs' = nvs]_vars

(***************************************************************************)
(* C2: every authenticated set, every authenticated identify and every     *)
(* ping sets lastPing to millis(), and a loop iteration less than 25 s     *)
(* after such a request does not force tallyState to ERROR.                *)
(***************************************************************************)
C2_ContactResetsDeadline ==
    [][/\ (ValidKey(request') /\ SetHandler(request')) => lastPing' = now
       /\ PingHandler => lastPing' = now
       /\ (ValidKey(request') /\ IdentifyHandler(request')) => lastPing' = now
       /\ (LoopRan /\ contactAt # NoTime /\ now - contactAt < 25000)
             => ~WatchdogFired]_vars

(***************************************************************************)
(* C3: a loop iteration that completes with no update in progress and      *)
(* more than 25000 ms after the last recorded contact leaves tallyState    *)
(* at ERROR, whatever requests and timeouts came before.                   *)
(***************************************************************************)
C3_SilenceForcesError ==
    [][(LoopRan /\ ~otaInProgress /\ pingAt # NoTime /\ now - pingAt > 25000)
          => tallyState' = TALLY_ERROR]_vars

\* STANDBY was set, more than 25 s passed without contact and the watchdog
\* has forced ERROR
C3_Witness ==
    /\ request.ep = "/set" /\ request.state.value = "STANDBY"
    /\ response.code = 200 /\ response.tallyState = "STANDBY"
    /\ pingAt # NoTime /\ now - pingAt > 25000
    /\ lastPing = 0
    /\ tallyState = TALLY_ERROR
    /\ render = "tally"

(***************************************************************************)
(* C4: between two recorded contacts the watchdog branch is taken at most  *)
(* once.                                                                   *)
(***************************************************************************)
C4_FiresOncePerEpisode == fires <= 1

\* the watchdog has fired, an identify arrived later without re-arming it,
\* and loop() has run again since
C4_Witness ==
    /\ fires = 1
    /\ lastPing = 0
    /\ pingAt # NoTime
    /\ request.ep = "/identify"
    /\ contactAt - pingAt > 25000
    /\ render = "identify"

(***************************************************************************)
(* C5: a set, identify or restart request without the right apiKey is      *)
(* answered 403 and changes nothing but the response, whatever its other   *)
(* parameters are.                                                         *)
(***************************************************************************)
C5_UnauthorizedChangesNothing ==
    [][LET req == request' IN
          (~ValidKey(req)
           /\ (SetHandler(req) \/ IdentifyHandler(req) \/ RestartHandler(req)))
          => /\ response'.code = 403
             /\ UNCHANGED << pc, now, tallyState, config, nvs, lastPing,
                             identifyStart, lastOtaTime, otaInProgress,
                             hasTriedOta, leds, fastBrightness, render >>]_vars

\* a set with a wrong key, a valid state name and an out-of-range brightness
\* was answered 403
C5_Witness ==
    /\ request.ep = "/set"
    /\ request.apiKey = Param("wrong")
    /\ request.state.value = "PROGRAM"
    /\ request.brightness.value = << "2", "5", "6" >>
    /\ response.code = 403
    /\ tallyState # TALLY_PROGRAM

(***************************************************************************)
(* C6: an authenticated set naming one of the five states leaves           *)
(* tallyState at the state of that name, and the status query reports the  *)
(* name of tallyState; any other name is answered 400 with tallyState      *)
(* unchanged; tallyState is always one of the five states.                 *)
(***************************************************************************)
C6_SetStateByName ==
    [][/\ LET req == request' IN
             (ValidKey(req) /\ req.state.has /\ SetHandler(req)) =>
                 IF req.state.value \in ValidNames
                 THEN toString(tallyState') = req.state.value
                 ELSE response'.code = 400 /\ tallyState' = tallyState
       /\ StatusHandler =>
             /\ response'.code = 200
             /\ response'.tallyState = toString(tallyState)
             /\ response'.tallyState \in ValidNames
       /\ tallyState' \in { TALLY_OFF, TALLY_STANDBY, TALLY_PROGRAM,
                            TALLY_PREVIEW, TALLY_ERROR }]_vars

\* PREVIEW was set and the status query reported it
C6_Witness ==
    /\ request.ep = "/"
    /\ response.tallyState = "PREVIEW"
    /\ tallyState = TALLY_PREVIEW

C9_ConfigRoundTrip ==
    [][/\ Setup =>
             IF nvs.version = 1 /\ Len(nvs.blob) = 1
             THEN config' = nvs.blob[1] /\ nvs' = nvs
             ELSE /\ config' = 127
                  /\ nvs' = [version |-> 1, blob |-> << 127 >>]
       /\ saved' => nvs' = [version |-> 1, blob |-> << config' >>]
       /\ pc' = "boot" => nvs' = nvs]_vars

\* brightness 0 was saved by a set, the device was restarted and setup()
\* loaded 0
C9_Witness ==
    /\ pc = "run"
    /\ render = "setup"
    /\ request.ep = "/restart" /\ response.code = 200
    /\ config = 0
    /\ nvs = [version |-> 1, blob |-> << 0 >>]

(***************************************************************************)
(* C10: an authenticated set whose brightness spells an integer v of       *)
(* 0..255 (its state parameter absent or valid) makes config.brightness    *)
(* and the stored brightness v and reports v, and it writes NVS exactly    *)
(* when v differs from the brightness before; with an integer outside      *)
(* 0..255 the request is answered 400 and both are kept.  Once setup() has *)
(* run, the stored brightness equals config.brightness.                    *)
(***************************************************************************)
C10_BrightnessPersisted ==
    [][/\ LET req == request' IN
             (ValidKey(req) /\ (req.state.has => NamesValidState(req))
              /\ req.brightness.has /\ SetHandler(req)) =>
                 /\ \A p \in InRangeBrightness :
                       req.brightness.value = p[1] =>
                           /\ config' = p[2]
                           /\ nvs' = [version |-> 1, blob |-> << p[2] >>]
                           /\ response'.code = 200
                           /\ response'.brightness = p[2]
                           /\ saved' = (p[2] # config)
                           /\ (p[2] = config => nvs' = nvs)
                 /\ req.brightness.value \in OutOfRangeBrightness =>
                       /\ response'.code = 400
                       /\ config' = config
                       /\ nvs' = nvs
                       /\ ~saved'
       /\ pc' # "boot" => nvs' = [version |-> 1, blob |-> << config' >>]]_vars

\* brightness 255 was set, stored and reported
C10_Witness ==
    /\ request.ep = "/set"
    /\ request.brightness.value = << "2", "5", "5" >>
    /\ response.code = 200 /\ response.brightness = 255
    /\ config = 255
    /\ saved
    /\ nvs.blob = << 255 >>

(***************************************************************************)
(* The update sequence                                                     *)
(***************************************************************************)
\* the step in which an update attempt ends in failure: the onError
\* callback runs, or update() returns HTTP_UPDATE_FAILED
UpdateFailed == OtaError \/ OtaReturnWith("HTTP_UPDATE_FAILED")

(***************************************************************************)
(* C11: any failure of the update sequence is fatal: the step in which the *)
(* attempt fails shows the failure pattern and restarts the device, and no *)
(* normal iteration of loop() runs in a process whose update attempt has   *)
(* failed.                                                                 *)
(***************************************************************************)
C11_FailureIsFatal ==
    [][/\ UpdateFailed => (pc' = "boot" /\ render' = "otaError")
       /\ ret = "HTTP_UPDATE_FAILED"
              => ~(\E wifiConnected \in BOOLEAN : Tick(wifiConnected))]_vars

(***************************************************************************)
(* C12: update() is called at most once between two boots: a call is made  *)
(* only by an iteration of loop() that has not tried before, and an        *)
(* iteration that sees the network connected without calling update() runs *)
(* only after the one attempt.                                             *)
(***************************************************************************)
C12_UpdateAttemptedOnce ==
    [][/\ attempts' <= 1
       /\ attempts' > attempts => (attempts = 0 /\ ~hasTriedOta /\ pc' = "ota")
       /\ Tick(TRUE) => attempts = 1]_vars

\* the one attempt found no update, and loop() has been ticking since
C12_Witness ==
    /\ attempts = 1
    /\ ret = "HTTP_UPDATE_NO_UPDATES"
    /\ pc = "run"
    /\ now > BootDelay
    /\ render = "tally"

\* the parts of the firmware that write the strip from inside update()
OtaRenders == { "otaStart", "otaProgress", "otaEnd", "otaError" }

(***************************************************************************)
(* C13: while otaInProgress is set, loop() does nothing: no step forces    *)
(* ERROR, no step ends the identify window, and a step that writes the     *)
(* strip or its brightness is a step of an update callback.                *)
(***************************************************************************)
C13_TickIdleDuringUpdate ==
    [][(otaInProgress /\ pc' # "boot")
          => /\ ~WatchdogFired
             /\ ~(identifyStart # 0 /\ identifyStart' = 0)
             /\ << leds, fastBrightness, render >>' # << leds, fastBrightness, render >>
                    => render' \in OtaRenders]_vars

(***************************************************************************)
(* The watchdog at start                                                   *)
(***************************************************************************)
\* C14 as stated: in a run without any set or ping since the start, no
\* step forces ERROR.
C14_NoErrorWithoutContact == [][pingAt = NoTime => ~WatchdogFired]_vars

(***************************************************************************)
(* C14: the watchdog forces ERROR only while lastPing is not the sentinel  *)
(* 0 and more than 25000 ms after lastPing.  lastPing starts at 1, so in a *)
(* run without any set or ping since the start an iteration of loop()      *)
(* leaves the state ERROR exactly when millis() is beyond 25001.           *)
(***************************************************************************)
C14_ArmedAtStart ==
    [][/\ WatchdogFired => (now - lastPing > 25000 /\ tallyState # TALLY_ERROR)
       /\ (pingAt = NoTime /\ LoopRan /\ ~otaInProgress)
              => (tallyState' = TALLY_ERROR <=> now > 25001)]_vars

\* ERROR was forced with no set and no ping since the start
C14_Witness ==
    /\ pingAt = NoTime
    /\ contactAt = NoTime
    /\ tallyState = TALLY_ERROR
    /\ lastPing = 0
    /\ fires = 1

(***************************************************************************)
(* C15: a set request with the right apiKey sets lastPing to millis(), and *)
(* so away from the sentinel 0, whatever the answer is: 200, or 400 for no *)
(* parameters, an invalid state name or an out-of-range brightness.  The   *)
(* status query leaves lastPing as it is.                                  *)
(***************************************************************************)
C15_RejectedSetRecordsContact ==
    [][LET req == request' IN
          /\ (ValidKey(req) /\ SetHandler(req))
                 => (response'.code \in { 200, 400 } /\ lastPing' = now /\ lastPing' # 0)
          /\ StatusHandler => lastPing' = lastPing]_vars

\* the watchdog had fired; a set without parameters was answered 400 and
\* re-armed it
C15_Witness ==
    /\ request.ep = "/set"
    /\ response.code = 400
    /\ response.error = "No parameters given"
    /\ tallyState = TALLY_ERROR
    /\ lastPing = now
    /\ lastPing > PingTimeout

(***************************************************************************)
(* Handlers against the watchdog                                           *)
(***************************************************************************)
\* no /set handler and no watchdog step is half done
Quiescent == pc = "run" /\ ~HandlerRunning

(***************************************************************************)
(* C16: the /set and /ping handlers and the watchdog step of loop() are    *)
(* atomic with respect to each other.  Whenever neither is half done,      *)
(* lastPing = 0 only with tallyState = ERROR; and while millis() is still  *)
(* the time of a set that was answered 200, tallyState is the state the    *)
(* answer reports and lastPing is that time.                               *)
(***************************************************************************)
C16_HandlersAtomicWithTick ==
    Quiescent =>
        /\ lastPing = 0 => tallyState = TALLY_ERROR
        /\ (request.ep = "/set" /\ response.code = 200 /\ pingAt = now)
               => (toString(tallyState) = response.tallyState /\ lastPing = now)

(***************************************************************************)
(* Requests during the update                                              *)
(***************************************************************************)
\* loop() is inside httpUpdate.update()
UpdateRunning == pc \in { "ota", "otaWrite", "otaEnd" }

(***************************************************************************)
(* C17: nothing runs concurrently with an update.  A step taken while      *)
(* loop() is inside update() and stays there (a request handled, a         *)
(* progress callback) changes none of tallyState, the brightness, lastPing *)
(* and identifyStart and does not write NVS.                               *)
(***************************************************************************)
C17_NothingRunsDuringUpdate ==
    [][(UpdateRunning /\ pc' = pc)
          => UNCHANGED << tallyState, config, nvs, lastPing, identifyStart >>]_vars

(***************************************************************************)
(* Power loss while saving                                                 *)
(***************************************************************************)
(***************************************************************************)
(* C18: whatever point of saveConfig() the power failed at, loadConfig()   *)
(* leaves the defaults in place, or a blob that was written while the      *)
(* version key was configVersion: the configuration saved before or the    *)
(* one that was being saved.  It never takes a blob that was written under *)
(* another schema version.                                                 *)
(***************************************************************************)
C18_SaveToleratesPowerLoss ==
    [][Setup => \/ config' = DefaultBrightness
                \/ /\ getBlobOk(nvs)
                   /\ blobVersion = configVersion
                   /\ config' = nvs.blob[1]]_vars

(***************************************************************************)
(* The end of an update attempt                                            *)
(***************************************************************************)
(***************************************************************************)
(* C19: an update attempt ends in a restart or with loop() going on with   *)
(* otaInProgress false.  No state has update() returned to loop() with     *)
(* otaInProgress still set.                                                *)
(***************************************************************************)
C19_ReturnedImpliesIdle == (pc = "run" /\ ret # "none") => ~otaInProgress

(***************************************************************************)
(* Rendering                                                               *)
(***************************************************************************)
\* the colours a tally state may be shown in
ExpectedColours(ts) ==
    IF ts = TALLY_OFF THEN { "Black" }
    ELSE IF ts = TALLY_STANDBY THEN { "Green" }
    ELSE IF ts = TALLY_PROGRAM THEN { "Red" }
    ELSE IF ts = TALLY_PREVIEW THEN { "OrangeRed" }
    ELSE { "DarkViolet", "Black" }

(***************************************************************************)
(* C20: an iteration of loop() outside an update that ends with no         *)
(* identify window open shows the colour of tallyState (OFF black, STANDBY *)
(* green, PROGRAM red, PREVIEW orange-red, ERROR dark violet or black) at  *)
(* the configured brightness, also when the iteration before showed the    *)
(* identify blink at 255.                                                  *)
(***************************************************************************)
C20_NormalRender ==
    [][(LoopRan /\ ~otaInProgress /\ identifyStart' = 0)
          => /\ render' = "tally"
             /\ leds' \in ExpectedColours(tallyState')
             /\ fastBrightness' = config']_vars

\* set(PROGRAM, 200), then identify; the window has expired and the strip
\* is back to red at 200
C20_Witness ==
    /\ request.ep = "/identify"
    /\ identifyStart = 0
    /\ now > contactAt + IdentifyDuration
    /\ render = "tally"
    /\ tallyState = TALLY_PROGRAM
    /\ leds = "Red"
    /\ config = 200
    /\ fastBrightness = 200

====
